---- MODULE Spec2Model ----
(***************************************************************************)
(* Model of the stats package: belief propagation on an Ising spin chain   *)
(* (stats/bp.py) and the sample auto-covariance (stats/common.py).         *)
(*                                                                         *)
(* Numbers.  A number is a pair <<n, d>>: the rational n/d in lowest terms *)
(* with d > 0, or one of the IEEE special values <<1,0>> (+inf), <<-1,0>>  *)
(* (-inf) and <<0,0>> (NaN), which is what numpy's float64 produces where  *)
(* Python's own floats would raise.  np.exp is taken in base 2: the        *)
(* inverse temperature is measured in units of ln 2 and beta, couplings    *)
(* and fields are integers, so exp(beta_real * x) = 2^(beta * x) is a      *)
(* rational and every operation of the code is computed exactly.           *)
(*                                                                         *)
(* The variable fp selects the arithmetic: FALSE is real arithmetic (every *)
(* operation exact), TRUE is a small binary floating-point format with     *)
(* round-to-nearest-even, gradual underflow and overflow to infinity, the  *)
(* float64 of the code scaled down to Precision mantissa bits and          *)
(* exponents in EMin..EMax.                                                *)
(***************************************************************************)
EXTENDS Integers, Sequences, FiniteSets, TLC

VARIABLES
    fp,               \* arithmetic: FALSE exact reals, TRUE small floats
    pc,               \* position of the bp call in progress
    entry,            \* function the caller called: "marginals" or "chain"
    beta,             \* argument beta
    coupling,         \* the caller's coupling list (passed by reference)
    field,            \* the caller's field list (passed by reference)
    message_start,    \* marginals line 130 / argument of the propagator
    direction,        \* argument direction of _propagate_messages_chain
    j_h_list,         \* pairs of the zip not yet consumed by the loop
    messages_output,  \* local of _propagate_messages_chain
    message_previous, \* local of _propagate_messages_chain
    mu_left,          \* local of marginals
    mu_right,         \* local of marginals
    result,           \* value returned to the caller (<<>>: nothing)
    error,            \* exception raised to the caller ("none": nothing)
    n_updates,        \* evaluations of _propagate_message in this call
    zero_denominator, \* a normalisation of this call divided by zero
    calls,            \* calls the caller made with these lists
    first_result,     \* what the caller's first call returned
    first_error,      \* what the caller's first call raised
    apc,              \* position of the acvar call in progress
    sample,           \* argument sample of acvar
    n_lags,           \* argument n_lags of acvar
    lag,              \* loop variable i of acvar
    acv               \* local acv of acvar

vars == <<fp, pc, entry, beta, coupling, field, message_start, direction,
          j_h_list, messages_output, message_previous, mu_left, mu_right,
          result, error, n_updates, zero_denominator, calls, first_result,
          first_error, apc, sample, n_lags, lag, acv>>

bpvars == <<pc, entry, beta, coupling, field, message_start, direction,
            j_h_list, messages_output, message_previous, mu_left, mu_right,
            result, error, n_updates, zero_denominator, calls, first_result,
            first_error>>

acvars == <<apc, sample, n_lags, lag, acv>>

----------------------------------------------------------------------------
(* Bounds of the model *)

\* longest chain (number of sites) the caller passes
MaxN == 3

\* longest sample passed to acvar
MaxLen == 4

\* beta, coupling and field values the caller passes (exact arithmetic)
BetaVals == {1, 2}
CouplingVals == {-1, 0, 1}
FieldVals == {-1, 0, 1}

\* values the caller passes under the small float format: large enough to
\* saturate, overflow and underflow it
BetaValsFloat == {1}
CouplingValsFloat == {0, 2}
FieldValsFloat == {-3, 0, 2}

\* sample values passed to acvar
SampleVals == {0, 1, 3}

\* the small float format: mantissa bits and exponent range
Precision == 2
EMax == 4
EMin == -EMax

\* spin values, bp.py lines 3-4
SU == 1
SD == -1

----------------------------------------------------------------------------
(* Arithmetic *)

Zero == <<0, 1>>
One == <<1, 1>>
Half == <<1, 2>>
Inf == <<1, 0>>
NaN == <<0, 0>>

Abs(n) == IF n < 0 THEN -n ELSE n

Sgn(n) == IF n < 0 THEN -1 ELSE IF n > 0 THEN 1 ELSE 0

RECURSIVE GCD(_, _)
GCD(a, b) == IF b = 0 THEN a ELSE GCD(b, a % b)

\* n/d in lowest terms with a positive denominator; d = 0 gives inf or NaN
Reduce(n, d) ==
    IF d = 0 THEN <<Sgn(n), 0>>
    ELSE LET s == Sgn(d)
             g == GCD(Abs(n), Abs(d))
         IN  <<(s * n) \div g, (s * d) \div g>>

IsNaN(x) == x = NaN
IsFinite(x) == x[2] > 0

\* x <= y for finite numbers
Leq(x, y) == x[1] * y[2] <= y[1] * x[2]

Pow2(k) == 2 ^ k

\* largest e with 2^e <= a/d, for a, d > 0
RECURSIVE FloorLog2(_, _)
FloorLog2(a, d) ==
    IF a < d THEN FloorLog2(2 * a, d) - 1
    ELSE IF a >= 2 * d THEN FloorLog2(a, 2 * d) + 1
    ELSE 0

\* the integer nearest to a/d, ties to even, for a >= 0, d > 0
RoundHalfEven(a, d) ==
    LET q == a \div d
        r == a % d
    IN  IF 2 * r < d THEN q
        ELSE IF 2 * r > d THEN q + 1
        ELSE IF q % 2 = 0 THEN q ELSE q + 1

\* a finite non-zero number rounded to the float format
RoundToFormat(x) ==
    LET s == Sgn(x[1])
        a == Abs(x[1])
        d == x[2]
        e == FloorLog2(a, d)
        ee == IF e < EMin THEN EMin ELSE e
        q == ee - Precision + 1      \* exponent of the last mantissa bit
        m == IF q >= 0 THEN RoundHalfEven(a, d * Pow2(q))
                       ELSE RoundHalfEven(a * Pow2(-q), d)
    IN  IF e > EMax \/ (ee = EMax /\ m >= Pow2(Precision)) THEN <<s, 0>>
        ELSE IF q >= 0 THEN Reduce(s * m * Pow2(q), 1)
                       ELSE Reduce(s * m, Pow2(-q))

\* the result of one arithmetic operation as the arithmetic in use stores it
Fl(x) == IF fp /\ x[2] > 0 /\ x[1] # 0 THEN RoundToFormat(x) ELSE x

Neg(x) == <<-x[1], x[2]>>

\* 1/x; 1/0 is inf
Recip(x) == IF x[1] < 0 THEN <<-x[2], -x[1]>> ELSE <<x[2], x[1]>>

Add(x, y) ==
    IF x[2] = 0 /\ y[2] = 0 THEN (IF x = y THEN x ELSE NaN)
    ELSE IF x[2] = 0 \/ y[2] = 0
    THEN Reduce(x[1] * y[2] + y[1] * x[2], 0)
    ELSE LET g == GCD(x[2], y[2])
         IN  Fl(Reduce(x[1] * (y[2] \div g) + y[1] * (x[2] \div g),
                       x[2] * (y[2] \div g)))

Sub(x, y) == Add(x, Neg(y))

Mul(x, y) ==
    IF x[1] = 0 \/ y[1] = 0 \/ x[2] = 0 \/ y[2] = 0
    THEN Reduce(x[1] * y[1], x[2] * y[2])
    ELSE LET g1 == GCD(Abs(x[1]), y[2])
             g2 == GCD(Abs(y[1]), x[2])
         IN  Fl(<<(x[1] \div g1) * (y[1] \div g2),
                  (x[2] \div g2) * (y[2] \div g1)>>)

\* numpy float64 division: x/0 is inf or NaN with a warning, never an exception
Div(x, y) == Mul(x, Recip(y))

\* np.exp in base 2 at the integer k
Exp2(k) ==
    IF fp /\ k > EMax THEN Inf
    ELSE IF fp /\ k < EMin - Precision THEN Zero
    ELSE IF k >= 0 THEN Fl(<<Pow2(k), 1>>)
    ELSE Fl(<<1, Pow2(-k)>>)

----------------------------------------------------------------------------
(* Python list operations used by the code *)

Reverse(s) == [k \in 1..Len(s) |-> s[Len(s) + 1 - k]]

\* s[:-1]
AllButLast(s) == IF Len(s) = 0 THEN <<>> ELSE SubSeq(s, 1, Len(s) - 1)

\* s[-2::-1]: from the last but one element down to the first
FromLastButOneDown(s) ==
    IF Len(s) < 2 THEN <<>> ELSE [k \in 1..(Len(s) - 1) |-> s[Len(s) - k]]

\* s[i:]
DropFirst(s, i) == IF i >= Len(s) THEN <<>> ELSE SubSeq(s, i + 1, Len(s))

\* s[:-i], for i >= 1
DropLast(s, i) == IF i >= Len(s) THEN <<>> ELSE SubSeq(s, 1, Len(s) - i)

Min(a, b) == IF a <= b THEN a ELSE b

\* zip(s, t): pairs up to the shorter of the two
Zip(s, t) == [k \in 1..Min(Len(s), Len(t)) |-> <<s[k], t[k]>>]

\* zip(s, t, u)
Zip3(s, t, u) ==
    [k \in 1..Min(Len(s), Min(Len(t), Len(u))) |-> <<s[k], t[k], u[k]>>]

----------------------------------------------------------------------------
(* stats/bp.py *)

\* _phi_interaction losing the second spin
PhiInteractionOneSpin(x_1, x_2, J, b) == Exp2(b * J * x_1)

\* _phi_interaction: exp(beta*J*x_1*x_2)
PhiInteraction(x_1, x_2, J, b) == Exp2(b * J * x_1 * x_2)

\* _phi_field: exp(beta*h*x_1)
PhiField(x_1, h, b) == Exp2(b * h * x_1)

\* non normalised positive message, bp.py lines 50-51
TmpUp(b, jj, hh, mu_up) ==
    Add(Mul(Mul(PhiInteraction(SU, SU, jj, b), PhiField(SU, hh, b)), mu_up),
        Mul(Mul(PhiInteraction(SU, SD, jj, b), PhiField(SD, hh, b)),
            Sub(One, mu_up)))

\* non normalised negative message, bp.py lines 54-55
TmpDw(b, jj, hh, mu_up) ==
    Add(Mul(Mul(PhiInteraction(SD, SU, jj, b), PhiField(SU, hh, b)), mu_up),
        Mul(Mul(PhiInteraction(SD, SD, jj, b), PhiField(SD, hh, b)),
            Sub(One, mu_up)))

\* _propagate_message returning the non normalised positive message
PropagateMessageNotNormalised(b, jj, hh, mu_up) == TmpUp(b, jj, hh, mu_up)

\* _propagate_message: the normalised positive message, bp.py line 58
PropagateMessage(b, jj, hh, mu_up) ==
    LET tmp_up == TmpUp(b, jj, hh, mu_up)
        tmp_dw == TmpDw(b, jj, hh, mu_up)
    IN  Div(tmp_up, Add(tmp_up, tmp_dw))

\* the consistency check refusing only a coupling list that is too long
ShapeConsistentUpperOnly(c, f) == Len(c) <= Len(f) - 1

\* the consistency check both marginals and the propagator make
ShapeConsistent(c, f) == Len(c) = Len(f) - 1

\* the direction check of the propagator, bp.py line 79
DirectionKnown(dir) == dir \in {"left", "right"}

\* j_h_list of direction left, bp.py line 89
PairsLeft(c, f) == Zip(c, AllButLast(f))

\* j_h_list of direction right with the slice field[-2:0:-1]
PairsRightStopEarly(c, f) == Zip(Reverse(c), AllButLast(FromLastButOneDown(f)))

\* j_h_list of direction right, bp.py line 91
PairsRight(c, f) == Zip(Reverse(c), FromLastButOneDown(f))

\* lf_dw computed with the up spin
LfDwUpSpin(b, f) == [k \in 1..Len(f) |-> Exp2(b * f[k] * SU)]

\* lf_up and lf_dw, bp.py lines 139 and 142
LfUp(b, f) == [k \in 1..Len(f) |-> Exp2(b * f[k] * SU)]
LfDw(b, f) == [k \in 1..Len(f) |-> Exp2(b * f[k] * SD)]

\* mu_up_non and mu_dw_non, bp.py lines 145 and 148
MuUpNon(ml, lf, mr) ==
    LET z == Zip3(ml, lf, mr)
    IN  [k \in 1..Len(z) |-> Mul(Mul(z[k][1], z[k][2]), z[k][3])]

MuDwNon(ml, lf, mr) ==
    LET z == Zip3(ml, lf, mr)
    IN  [k \in 1..Len(z) |->
            Mul(Mul(Sub(One, z[k][1]), z[k][2]), Sub(One, z[k][3]))]

\* marginals_list, bp.py line 151
Normalised(up, dw) ==
    LET z == Zip(up, dw)
    IN  [k \in 1..Len(z) |-> Div(z[k][1], Add(z[k][1], z[k][2]))]

\* whether some normalisation of line 151 divides by zero
SomeZeroSum(up, dw) ==
    LET z == Zip(up, dw)
    IN  \E k \in 1..Len(z) : Add(z[k][1], z[k][2]) = Zero

\* the combination of marginals, bp.py lines 139-153
Combine(b, f, ml, mr) ==
    Normalised(MuUpNon(ml, LfUp(b, f), mr), MuDwNon(ml, LfDw(b, f), mr))

----------------------------------------------------------------------------
(* The caller and the steps of a call into stats/bp.py *)

SeqsUpTo(S, n) == UNION {[1..k -> S] : k \in 0..n}

BetaSet == IF fp THEN BetaValsFloat ELSE BetaVals
CouplingSet == IF fp THEN CouplingValsFloat ELSE CouplingVals
FieldSet == IF fp THEN FieldValsFloat ELSE FieldVals

\* leaf messages the caller may hand to the propagator
StartVals == {<<1, 4>>}

\* direction strings the caller may hand to the propagator
DirectionVals == {"left", "right", "up"}

Locals0 ==
    /\ j_h_list' = <<>>
    /\ messages_output' = <<>>
    /\ message_previous' = Zero
    /\ mu_left' = <<>>
    /\ mu_right' = <<>>
    /\ result' = <<>>
    /\ error' = "none"
    /\ n_updates' = 0
    /\ zero_denominator' = FALSE

\* the caller calls marginals(b, c, f) with two lists of its own
CallMarginals ==
    /\ pc = "idle"
    /\ \E b \in BetaSet, c \in SeqsUpTo(CouplingSet, MaxN - 1),
          f \in SeqsUpTo(FieldSet, MaxN) :
            /\ beta' = b
            /\ coupling' = c
            /\ field' = f
    /\ entry' = "marginals"
    /\ pc' = "marginals_check"
    /\ message_start' = Zero
    /\ direction' = "none"
    /\ calls' = 1
    /\ Locals0
    /\ UNCHANGED <<fp, first_result, first_error, acvars>>

\* the caller calls _propagate_messages_chain(b, c, f, start, dir)
CallChain ==
    /\ pc = "idle"
    /\ \E b \in BetaSet, c \in SeqsUpTo(CouplingSet, MaxN - 1),
          f \in SeqsUpTo(FieldSet, MaxN), s \in StartVals,
          dir \in DirectionVals :
            /\ beta' = b
            /\ coupling' = c
            /\ field' = f
            /\ message_start' = s
            /\ direction' = dir
    /\ entry' = "chain"
    /\ pc' = "chain_check"
    /\ calls' = 1
    /\ Locals0
    /\ UNCHANGED <<fp, first_result, first_error, acvars>>

\* marginals, bp.py lines 125-133: the check, the leaf message, the left call
MarginalsCheck ==
    /\ pc = "marginals_check"
    /\ IF ShapeConsistent(coupling, field)
       THEN /\ message_start' = Half
            /\ direction' = "left"
            /\ pc' = "chain_check"
            /\ error' = error
       ELSE /\ error' = "ValueError"
            /\ pc' = "raised"
            /\ UNCHANGED <<message_start, direction>>
    /\ UNCHANGED <<fp, entry, beta, coupling, field, j_h_list,
                   messages_output, message_previous, mu_left, mu_right,
                   result, n_updates, zero_denominator, calls, first_result,
                   first_error, acvars>>

\* _propagate_messages_chain, bp.py lines 74-80: the two checks
ChainCheck ==
    /\ pc = "chain_check"
    /\ IF ShapeConsistent(coupling, field) /\ DirectionKnown(direction)
       THEN pc' = "chain_init" /\ error' = error
       ELSE pc' = "raised" /\ error' = "ValueError"
    /\ UNCHANGED <<fp, entry, beta, coupling, field, message_start,
                   direction, j_h_list, messages_output, message_previous,
                   mu_left, mu_right, result, n_updates, zero_denominator,
                   calls, first_result, first_error, acvars>>

\* lines 82-91 with coupling.reverse() in place of the copy coupling[::-1]
ChainInitReverseInPlace ==
    /\ pc = "chain_init"
    /\ messages_output' = <<message_start>>
    /\ message_previous' = message_start
    /\ coupling' = IF direction = "left" THEN coupling ELSE Reverse(coupling)
    /\ j_h_list' = IF direction = "left" THEN PairsLeft(coupling, field)
                                         ELSE PairsRight(coupling, field)
    /\ pc' = "chain_loop"
    /\ UNCHANGED <<fp, entry, beta, field, message_start,
                   direction, mu_left, mu_right, result, error, n_updates,
                   zero_denominator, calls, first_result, first_error,
                   acvars>>

\* _propagate_messages_chain, bp.py lines 82-91: the output list and the pairs
ChainInit ==
    /\ pc = "chain_init"
    /\ messages_output' = <<message_start>>
    /\ message_previous' = message_start
    /\ j_h_list' = IF direction = "left" THEN PairsLeft(coupling, field)
                                         ELSE PairsRight(coupling, field)
    /\ pc' = "chain_loop"
    /\ UNCHANGED <<fp, entry, beta, coupling, field, message_start,
                   direction, mu_left, mu_right, result, error, n_updates,
                   zero_denominator, calls, first_result, first_error,
                   acvars>>

\* _propagate_messages_chain, bp.py lines 93-102: one turn of the loop
ChainStep ==
    /\ pc = "chain_loop"
    /\ j_h_list # <<>>
    /\ LET jj == Head(j_h_list)[1]
           hh == Head(j_h_list)[2]
           message_next == PropagateMessage(beta, jj, hh, message_previous)
       IN  /\ messages_output' = Append(messages_output, message_next)
           /\ message_previous' = message_next
           /\ zero_denominator' =
                (zero_denominator
                  \/ Add(TmpUp(beta, jj, hh, message_previous),
                         TmpDw(beta, jj, hh, message_previous)) = Zero)
    /\ j_h_list' = Tail(j_h_list)
    /\ n_updates' = n_updates + 1
    /\ UNCHANGED <<fp, pc, entry, beta, coupling, field, message_start,
                   direction, mu_left, mu_right, result, error, calls,
                   first_result, first_error, acvars>>

\* _propagate_messages_chain, bp.py lines 104-108, and what the caller does
\* with the returned list (marginals lines 133 and 136)
ChainReturn ==
    /\ pc = "chain_loop"
    /\ j_h_list = <<>>
    /\ LET out == IF direction = "right" THEN Reverse(messages_output)
                                          ELSE messages_output
       IN  /\ messages_output' = out
           /\ IF entry = "chain"
              THEN /\ result' = out
                   /\ pc' = "done"
                   /\ UNCHANGED <<mu_left, mu_right, direction>>
              ELSE IF direction = "left"
              THEN /\ mu_left' = out
                   /\ direction' = "right"
                   /\ pc' = "chain_check"
                   /\ UNCHANGED <<mu_right, result>>
              ELSE /\ mu_right' = out
                   /\ pc' = "marginals_combine"
                   /\ UNCHANGED <<mu_left, result, direction>>
    /\ UNCHANGED <<fp, entry, beta, coupling, field, message_start, j_h_list,
                   message_previous, error, n_updates, zero_denominator,
                   calls, first_result, first_error, acvars>>

\* marginals, bp.py lines 138-153
MarginalsCombine ==
    /\ pc = "marginals_combine"
    /\ result' = Combine(beta, field, mu_left, mu_right)
    /\ zero_denominator' =
         (zero_denominator
           \/ SomeZeroSum(MuUpNon(mu_left, LfUp(beta, field), mu_right),
                          MuDwNon(mu_left, LfDw(beta, field), mu_right)))
    /\ pc' = "done"
    /\ UNCHANGED <<fp, entry, beta, coupling, field, message_start,
                   direction, j_h_list, messages_output, message_previous,
                   mu_left, mu_right, error, n_updates, calls, first_result,
                   first_error, acvars>>

\* the caller repeats its call with the same two lists
CallAgain ==
    /\ pc \in {"done", "raised"}
    /\ calls = 1
    /\ calls' = 2
    /\ first_result' = result
    /\ first_error' = error
    /\ pc' = IF entry = "marginals" THEN "marginals_check" ELSE "chain_check"
    /\ Locals0
    /\ UNCHANGED <<fp, entry, beta, coupling, field, message_start,
                   direction, acvars>>

----------------------------------------------------------------------------
(* stats/common.py *)

Rat(v) == <<v, 1>>

RECURSIVE SumSeq(_)
SumSeq(s) == IF Len(s) = 0 THEN Zero ELSE Add(Head(s), SumSeq(Tail(s)))

\* the mean np.cov subtracts from each row
Mean(x) == Div(SumSeq(x), Rat(Len(x)))

\* np.cov(x, y)[0, 1] for two rows of one length: the sum of the products of
\* the deviations over n - 1; 0/0 = NaN for fewer than two observations
Cov(x, y) ==
    LET n == Len(x)
        mx == Mean(x)
        my == Mean(y)
        prod == [k \in 1..n |-> Mul(Sub(x[k], mx), Sub(y[k], my))]
    IN  Div(SumSeq(prod), Rat(IF n >= 1 THEN n - 1 ELSE 0))

\* the sample as numbers
Numbers(s) == [k \in 1..Len(s) |-> Rat(s[k])]

\* the 0-lag auto-covariance, common.py line 18
AcvarLagZero(s) == Cov(Numbers(s), Numbers(s))

\* the i-lag auto-covariance with both slices one element too short
AcvarLagOffByOne(s, i) ==
    Cov(Numbers(DropFirst(s, i + 1)), Numbers(DropLast(s, i + 1)))

\* the i-lag auto-covariance, common.py line 22
AcvarLag(s, i) == Cov(Numbers(DropFirst(s, i)), Numbers(DropLast(s, i)))

\* the caller calls acvar(s, n)
AcvarCall ==
    /\ apc = "idle"
    /\ \E s \in SeqsUpTo(SampleVals, MaxLen) \ {<<>>}, n \in 0..MaxLen :
            sample' = s /\ n_lags' = n
    /\ acv' = <<>>
    /\ lag' = 0
    /\ apc' = "lag0"
    /\ UNCHANGED <<fp, bpvars>>

\* acvar, common.py lines 15-18
AcvarFirst ==
    /\ apc = "lag0"
    /\ acv' = <<AcvarLagZero(sample)>>
    /\ lag' = 1
    /\ apc' = "loop"
    /\ UNCHANGED <<fp, bpvars, sample, n_lags>>

\* acvar, common.py lines 21-22: one turn of the loop
AcvarStep ==
    /\ apc = "loop"
    /\ lag <= n_lags
    /\ acv' = Append(acv, AcvarLag(sample, lag))
    /\ lag' = lag + 1
    /\ UNCHANGED <<fp, bpvars, apc, sample, n_lags>>

\* acvar, common.py line 24
AcvarReturn ==
    /\ apc = "loop"
    /\ lag > n_lags
    /\ apc' = "done"
    /\ UNCHANGED <<fp, bpvars, sample, n_lags, lag, acv>>

----------------------------------------------------------------------------
(* Specifications *)

InitCommon ==
    /\ pc = "idle"
    /\ entry = "none"
    /\ beta = 0
    /\ coupling = <<>>
    /\ field = <<>>
    /\ message_start = Zero
    /\ direction = "none"
    /\ j_h_list = <<>>
    /\ messages_output = <<>>
    /\ message_previous = Zero
    /\ mu_left = <<>>
    /\ mu_right = <<>>
    /\ result = <<>>
    /\ error = "none"
    /\ n_updates = 0
    /\ zero_denominator = FALSE
    /\ calls = 0
    /\ first_result = <<>>
    /\ first_error = "none"
    /\ apc = "idle"
    /\ sample = <<>>
    /\ n_lags = 0
    /\ lag = 0
    /\ acv = <<>>

Init == fp = FALSE /\ InitCommon

InitFloat == fp = TRUE /\ InitCommon

Next ==
    \/ CallMarginals
    \/ CallChain
    \/ MarginalsCheck
    \/ ChainCheck
    \/ ChainInit
    \/ ChainStep
    \/ ChainReturn
    \/ MarginalsCombine
    \/ CallAgain

NextAcvar ==
    \/ AcvarCall
    \/ AcvarFirst
    \/ AcvarStep
    \/ AcvarReturn

\* calls into stats/bp.py in real arithmetic
Spec == Init /\ [][Next]_vars

\* calls into stats/bp.py in the small floating-point format
SpecFloat == InitFloat /\ [][Next]_vars

\* calls of acvar in real arithmetic
SpecAcvar == Init /\ [][NextAcvar]_vars

----------------------------------------------------------------------------
(* The exact marginal of the chain, by enumeration of the configurations *)

Configurations(n) == [1..n -> {SU, SD}]

RECURSIVE IntSum(_, _)
IntSum(g, n) == IF n = 0 THEN 0 ELSE g[n] + IntSum(g, n - 1)

\* sum_k couplings[k]*s_k*s_{k+1} + sum_k fields[k]*s_k
Energy(c, f, s) ==
    IntSum([k \in 1..(Len(f) - 1) |-> c[k] * s[k] * s[k + 1]], Len(f) - 1)
      + IntSum([k \in 1..Len(f) |-> f[k] * s[k]], Len(f))

RECURSIVE TotalWeight(_, _, _, _)
TotalWeight(b, c, f, S) ==
    IF S = {} THEN Zero
    ELSE LET s == CHOOSE t \in S : TRUE
         IN  Add(Exp2(b * Energy(c, f, s)), TotalWeight(b, c, f, S \ {s}))

ExactMarginal(b, c, f, i) ==
    Div(TotalWeight(b, c, f, {s \in Configurations(Len(f)) : s[i] = SU}),
        TotalWeight(b, c, f, Configurations(Len(f))))

----------------------------------------------------------------------------
(* Claims *)

Returned == pc = "done" /\ entry = "marginals"

InUnit(x) == IsFinite(x) /\ Leq(Zero, x) /\ Leq(x, One)

AllIn(s, P(_)) == \A k \in 1..Len(s) : P(s[k])

IsHalf(x) == x = Half

\* C1: every marginal that marginals returns for a valid chain is the exact
\* marginal of the Ising chain: the weight of the configurations with
\* s_i = +1 over the weight of all configurations.
C1_MarginalsAreExact ==
    Returned =>
        /\ Len(result) = Len(field)
        /\ \A i \in 1..Len(field) :
             result[i] = ExactMarginal(beta, coupling, field, i)

\* C2: whenever len(couplings) # len(fields) - 1 the call has raised the
\* configuration error by the time it is past its check, with no message
\* propagated, no list built and nothing returned.
C2_ShapeErrorBeforeWork ==
    (/\ pc \notin {"idle", "marginals_check", "chain_check"}
     /\ Len(coupling) # Len(field) - 1)
    =>  /\ pc = "raised"
        /\ error = "ValueError"
        /\ result = <<>>
        /\ n_updates = 0
        /\ messages_output = <<>>
        /\ mu_left = <<>>
        /\ mu_right = <<>>

\* C2 witness: marginals raised on empty fields with empty couplings.
C2_Witness ==
    /\ pc = "raised"
    /\ entry = "marginals"
    /\ field = <<>>
    /\ coupling = <<>>
    /\ error = "ValueError"

\* C3: once a normalisation (of a message update or of a marginal) has
\* divided by zero, the call has raised an error: it does not go on, and it
\* does not return.
C3_ZeroDenominatorRaises == zero_denominator => pc = "raised"

C6_Lengths ==
    /\ Returned =>
         /\ Len(result) = Len(field)
         /\ Len(mu_left) = Len(field)
         /\ Len(mu_right) = Len(field)
    /\ (pc = "done" /\ entry = "chain") => Len(result) = Len(field)

\* C6 witness: marginals returned for a chain of three sites.
C6_Witness ==
    /\ Returned
    /\ Len(field) = 3
    /\ Len(coupling) = 2
    /\ Len(result) = 3

IsConstant(s) == \A k, l \in 1..Len(s) : s[k] = s[l]

\* C8: for a constant sample of length L and 0 <= n_lags <= L - 2, acvar
\* returns n_lags + 1 values, all 0.
C8_ConstantSample ==
    (/\ apc = "done"
     /\ IsConstant(sample)
     /\ n_lags <= Len(sample) - 2)
    =>  /\ Len(acv) = n_lags + 1
        /\ \A k \in 1..Len(acv) : acv[k] = Zero

\* C8 witness: acvar returned for the sample 3, 3, 3, 3 and two lags.
C8_Witness ==
    /\ apc = "done"
    /\ sample = <<3, 3, 3, 3>>
    /\ n_lags = 2
    /\ acv = <<Zero, Zero, Zero>>

\* the list the propagator produced in the direction right
RightMessages ==
    IF entry = "chain" THEN result ELSE mu_right

RightDone ==
    \/ pc = "done" /\ entry = "chain" /\ direction = "right"
    \/ pc \in {"marginals_combine", "done"} /\ entry = "marginals"

\* C9: in the direction right the output has messages[N-1] = message_start
\* and messages[k] = _propagate_message(beta, coupling[k], field[k+1],
\* messages[k+1]): the field at the right-hand end of each edge.
C9_RightUsesSourceField ==
    RightDone =>
        LET N == Len(field)
            m == RightMessages
        IN  /\ Len(m) = N
            /\ m[N] = message_start
            /\ \A k \in 1..(N - 1) :
                 m[k] = PropagateMessage(beta, coupling[k], field[k + 1],
                                         m[k + 1])

\* C10: no step of a call changes the caller's coupling or field list, and
\* a second call with the same lists returns (or raises) what the first did.
C10_InputsUntouched ==
    /\ [][pc # "idle" => (coupling' = coupling /\ field' = field)]_vars
    /\ [](calls = 2 /\ pc \in {"done", "raised"}
            => (result = first_result /\ error = first_error))

\* C10 witness: the second call of the propagator, direction right, returned
\* for a coupling list that differs from its reverse.
C10_Witness ==
    /\ calls = 2
    /\ pc = "done"
    /\ entry = "chain"
    /\ direction = "right"
    /\ coupling = <<1, -1>>
    /\ result = first_result

====
